---- MODULE Spec2Model ----
(***************************************************************************)
(* Zerro-levelup: the reactive data-access layer (DataService) over the    *)
(* Remote Store (Firebase Realtime Database + Firebase Auth).              *)
(*                                                                         *)
(* JavaScript objects are TLA+ records whose DOMAIN is the set of fields   *)
(* the object has: a field that is undefined is a field not in the DOMAIN. *)
(* Text that the code inspects (names, titles) is a sequence of            *)
(* one-character strings; text it only copies is a TLA+ string.            *)
(***************************************************************************)
EXTENDS Integers, Sequences, FiniteSets, TLC

\* ------------------------------------------------------------------ bounds
\* Number of ids push() hands out to addPost under posts/ and to addCategory and
\* seedDefaults under categories/.
MaxPostKey == 2
MaxCatKey == 2
\* seedDefaults starts only while the ids push() has handed out leave its two
\* categories within the first MaxSeedCatKey ids of categories/ and its four
\* listings within the first MaxSeedPostKey ids of posts/: room for two calls.
MaxSeedCatKey == 4
MaxSeedPostKey == 8
\* The clock (milliseconds since the epoch) runs from 0 to MaxTime.
MaxTime == 1
\* Pending onAuthStateChanged notifications.
MaxAuthQueue == 1
\* Pending navigation timers of handleLogin.
MaxNavTimers == 2

\* ------------------------------------------------------------- vocabulary
AdminEmail == "moinulbd.sk@gmail.com"
OtherEmail == "pub@example.com"
Emails == {AdminEmail, OtherEmail}

\* createUserWithEmailAndPassword issues one uid per credential.
UidOf(email) == IF email = AdminEmail THEN "uidA" ELSE "uidP"
Uids == {UidOf(e) : e \in Emails}
\* Object.keys order of the users subtree (keys in lexicographic order).
UidOrder == <<"uidA", "uidP">>

\* Ids handed out by push(): lexicographic order is chronological order.
PostKeyNames == <<"p01", "p02", "p03", "p04", "p05", "p06", "p07", "p08", "p09", "p10",
                  "p11", "p12", "p13", "p14", "p15", "p16">>
CatKeyNames == <<"c01", "c02", "c03", "c04", "c05", "c06", "c07", "c08">>

\* currentUser() === null
Null == [null |-> TRUE]

S_Ann == <<"A", "n", "n">>
S_User == <<"U", "s", "e", "r">>
S_DemoAdmin == <<"D", "e", "m", "o", " ", "A", "d", "m", "i", "n">>
S_SystemAdmin == <<"S", "y", "s", "t", "e", "m", " ", "A", "d", "m", "i", "n">>
S_SocialMedia == <<"S", "o", "c", "i", "a", "l", " ", "M", "e", "d", "i", "a">>
S_Messaging == <<"M", "e", "s", "s", "a", "g", "i", "n", "g">>
S_TechNews == <<"T", "e", "c", "h", " ", "N", "e", "w", "s">>
S_Facebook == <<"F", "a", "c", "e", "b", "o", "o", "k", " ", "O", "f", "f", "i", "c", "i", "a", "l">>
S_WhatsApp == <<"W", "h", "a", "t", "s", "A", "p", "p", " ", "W", "e", "b">>
S_Telegram == <<"T", "e", "l", "e", "g", "r", "a", "m", " ", "W", "e", "b">>
S_YouTube == <<"Y", "o", "u", "T", "u", "b", "e">>
S_TwoSpaces == <<"A", " ", " ", "b">>
S_Tab == <<"a", "\t", "B">>
S_MyLink == <<"M", "y", " ", "L", "i", "n", "k">>
S_Edited == <<"E", "d", "i", "t", "e", "d">>

VARIABLES
    \* Remote Store
    credentials,    \* emails that have a credential
    authUser,       \* uid of the session signed in at the store, or "null"
    dbUsers,        \* users/{uid}: function from the uids having data
    dbPosts,        \* posts/{id}
    dbCategories,   \* categories/{id}
    nextPost,       \* index of the next id push() hands out under posts/
    nextCat,        \* the same under categories/
    now,            \* the clock, new Date()
    \* DataService signals
    categories, posts, currentUser, allUsers,
    \* subscriptions: snapshots and notifications not yet delivered
    catDirty, postDirty, usersDirty,
    authQueue,      \* pending onAuthStateChanged notifications
    profileSubs,    \* uids with an open onValue(users/{uid}) listener
    profileDirty,   \* those of them with a snapshot to deliver
    \* asynchronous operations in flight
    logoutPc,       \* "idle" | "signOut"
    reg,            \* register(): [pc, name, email, role]
    seed,           \* seedDefaults(): [pc, socialCatId, msgCatId, adminId, adminName]
    \* AppComponent
    currentView,    \* ViewState
    selectedPost,   \* the listing of the detail view, or Null
    editingPostId,  \* the in-progress edit target, or "null"
    postForm,       \* the listing form buffer
    savePc,         \* savePost(): "idle" | "await"
    loginForm,      \* the login form buffer: [email]
    hl,             \* handleLogin(): [pc, email], email being the argument in flight
    navTimers,      \* pending setTimeout(..., 500) callbacks, oldest first
    \* the step that led to this state: [op, result, arg]
    lastOp

vars == <<credentials, authUser, dbUsers, dbPosts, dbCategories, nextPost, nextCat,
          now, categories, posts, currentUser, allUsers, catDirty, postDirty,
          usersDirty, authQueue, profileSubs, profileDirty, logoutPc, reg, seed,
          currentView, selectedPost, editingPostId, postForm, savePc, loginForm,
          hl, navTimers, lastOp>>

\* ---------------------------------------------------------------- helpers
\* { ...a, ...b } and update(ref, b): the fields of b over those of a.
Merge(a, b) ==
    [f \in (DOMAIN a) \cup (DOMAIN b) |-> IF f \in DOMAIN b THEN b[f] ELSE a[f]]

\* remove(ref(db, path/k))
Without(db, k) == [x \in (DOMAIN db) \ {k} |-> db[x]]

\* set(ref(db, path/k), v)
With(db, k, v) == [x \in (DOMAIN db) \cup {k} |-> IF x = k THEN v ELSE db[x]]

Op(op, result, arg) == [op |-> op, result |-> result, arg |-> arg]

\* Object.keys(data).map(key => ({ ...data[key], id: key })), keys in the order of
\* `order`.
RECURSIVE ToArray(_, _, _)
ToArray(data, order, i) ==
    IF i > Len(order) THEN <<>>
    ELSE IF order[i] \in DOMAIN data
         THEN <<Merge(data[order[i]], [id |-> order[i]])>> \o ToArray(data, order, i + 1)
         ELSE ToArray(data, order, i + 1)

\* ------------------------------------------------------- derived booleans
isAdmin ==
    currentUser # Null /\ "role" \in DOMAIN currentUser /\ currentUser.role = "admin"

isPublisher ==
    /\ currentUser # Null
    /\ "role" \in DOMAIN currentUser
    /\ currentUser.role \in {"publisher", "admin"}

\* canEdit without its second statement.
canEdit_NoAdminShortcut ==
    /\ currentUser # Null
    /\ ~("canEdit" \in DOMAIN currentUser /\ currentUser.canEdit = FALSE)

canEdit ==
    IF currentUser = Null THEN FALSE
    ELSE IF "role" \in DOMAIN currentUser /\ currentUser.role = "admin" THEN TRUE
    ELSE ~("canEdit" \in DOMAIN currentUser /\ currentUser.canEdit = FALSE)

\* ------------------------------------------------- the posts comparator
\* new Date(post.date).getTime(): the ISO string of toISOString() parses back to
\* its milliseconds; an undefined or unparsable date gives NaN.
NaN == [nan |-> TRUE]
Num(n) == [nan |-> FALSE, v |-> n]

toISOString(ms) == [iso |-> ms]

getTime(post) ==
    IF "date" \in DOMAIN post /\ DOMAIN post.date = {"iso"}
    THEN Num(post.date.iso)
    ELSE NaN

\* a >= b on numbers: false when either is NaN.
NumGE(a, b) == ~a.nan /\ ~b.nan /\ a.v >= b.v

\* (a, b) => getTime(b) - getTime(a), with SortCompare's "NaN is +0".
compare(a, b) ==
    IF getTime(a).nan \/ getTime(b).nan THEN 0 ELSE getTime(b).v - getTime(a).v

\* Array.prototype.sort with a consistent comparator: a stable sort. Each element
\* is inserted after the elements that do not sort after it.
RECURSIVE InsertSorted(_, _)
InsertSorted(x, s) ==
    IF s = <<>> THEN <<x>>
    ELSE IF compare(Head(s), x) <= 0 THEN <<Head(s)>> \o InsertSorted(x, Tail(s))
    ELSE <<x>> \o s

RECURSIVE StableSort(_, _)
StableSort(arr, acc) ==
    IF arr = <<>> THEN acc ELSE StableSort(Tail(arr), InsertSorted(Head(arr), acc))

Orderings(arr) ==
    LET n == Len(arr)
    IN { [i \in 1..n |-> arr[p[i]]] :
           p \in {q \in [1..n -> 1..n] : \A i, j \in 1..n : i # j => q[i] # q[j]} }

\* With a NaN among the times the comparator is not a consistent comparator and
\* the order sort() leaves is implementation-defined: any permutation.
sort(arr) ==
    IF \E i \in 1..Len(arr) : getTime(arr[i]).nan
    THEN Orderings(arr)
    ELSE {StableSort(arr, <<>>)}

\* ------------------------------------------------------------------ slug
IsSpace(c) == c \in {" ", "\t", "\n"}

\* String.prototype.toLowerCase, one character.
toLowerCase(c) ==
    CASE c = "A" -> "a" [] c = "B" -> "b" [] c = "C" -> "c" [] c = "D" -> "d"
      [] c = "E" -> "e" [] c = "F" -> "f" [] c = "G" -> "g" [] c = "H" -> "h"
      [] c = "I" -> "i" [] c = "J" -> "j" [] c = "K" -> "k" [] c = "L" -> "l"
      [] c = "M" -> "m" [] c = "N" -> "n" [] c = "O" -> "o" [] c = "P" -> "p"
      [] c = "Q" -> "q" [] c = "R" -> "r" [] c = "S" -> "s" [] c = "T" -> "t"
      [] c = "U" -> "u" [] c = "V" -> "v" [] c = "W" -> "w" [] c = "X" -> "x"
      [] c = "Y" -> "y" [] c = "Z" -> "z" [] OTHER -> c

lower(s) == [i \in 1..Len(s) |-> toLowerCase(s[i])]

\* replace(/\s/g, '-'): each white space character becomes a hyphen.
replaceSpaces_Each(s) == [i \in 1..Len(s) |-> IF IsSpace(s[i]) THEN "-" ELSE s[i]]

\* s.replace(/\s+/g, '-'): each maximal run of white space becomes one hyphen.
RECURSIVE replaceSpaces(_)
replaceSpaces(s) ==
    IF s = <<>> THEN <<>>
    ELSE IF IsSpace(Head(s))
         THEN IF Len(s) > 1 /\ IsSpace(s[2])
              THEN replaceSpaces(Tail(s))
              ELSE <<"-">> \o replaceSpaces(Tail(s))
         ELSE <<Head(s)>> \o replaceSpaces(Tail(s))

slug(name) == replaceSpaces(lower(name))

\* ------------------------------------------------------- filteredPosts
\* String.prototype.includes
includes(s, q) ==
    \E k \in 0..(Len(s) - Len(q)) : \A i \in 1..Len(q) : s[k + i] = q[i]

\* The filter callback throws a TypeError when it calls toLowerCase on an
\* undefined title, or, the title not matching, on an undefined publisherName.
filterThrows(post, query) ==
    \/ "title" \notin DOMAIN post
    \/ /\ ~includes(lower(post.title), query)
       /\ "publisherName" \notin DOMAIN post

matchesSearch(post, query) ==
    \/ includes(lower(post.title), query)
    \/ includes(lower(post.publisherName), query)

matchesCat(post, cat) ==
    cat = "all" \/ ("categoryId" \in DOMAIN post /\ post.categoryId = cat)

\* The computed filteredPosts for the values of searchQuery and selectedCategory:
\* the array it returns, or the TypeError it throws.
filteredPosts(searchQuery, selectedCategory) ==
    LET query == lower(searchQuery)
        keep(post) == matchesSearch(post, query) /\ matchesCat(post, selectedCategory)
    IN IF \E i \in 1..Len(posts) : filterThrows(posts[i], query)
       THEN [threw |-> "TypeError", value |-> <<>>]
       ELSE [threw |-> "", value |-> SelectSeq(posts, keep)]

\* ----------------------------------------------------------------- inputs
EmptyDb == [x \in {} |-> Null]

\* The profile a registration of the earlier release wrote: no canEdit field.
LegacyProfile == [name |-> S_Ann, email |-> OtherEmail, role |-> "publisher"]

\* postData of addPost: what savePost builds from the listing form.
PostInputs ==
    { [title |-> S_MyLink, description |-> "d", url |-> "https://my.example",
       imageUrl |-> "img", categoryId |-> "c01"] }

\* postData of updatePost (Partial<Post>).
UpdateInputs ==
    { [title |-> S_Edited, description |-> "e", url |-> "https://my.example",
       imageUrl |-> "img", categoryId |-> "c02"] }

\* name and icon of addCategory: createCategory passes a name that is not empty,
\* and '#' for an empty icon.
\* searchQuery and selectedCategory, as typed and chosen in the home view.
SearchInputs == { <<>>, <<"A", "N", "N">>, <<"e", "d", "i", "t">>, <<"w", "e", "b">> }
FilterInputs == {"all", "c01", "c02"}

CategoryInputs ==
    { [name |-> S_TechNews, icon |-> "#"],
      [name |-> S_TwoSpaces, icon |-> "#"],
      [name |-> S_Tab, icon |-> "*"] }

RegisterNames == {S_Ann}
RegisterRoles == {"publisher", "user"}

\* The ids the callers of updatePost, deletePost and deleteCategory pass: keys
\* push() has handed out so far, among the first MaxPostKey (MaxCatKey) of them.
PostKeysIssued ==
    {PostKeyNames[i] : i \in 1..(IF nextPost - 1 < MaxPostKey THEN nextPost - 1 ELSE MaxPostKey)}
CatKeysIssued ==
    {CatKeyNames[i] : i \in 1..(IF nextCat - 1 < MaxCatKey THEN nextCat - 1 ELSE MaxCatKey)}

FormFields == {"title", "description", "url", "imageUrl", "categoryId"}

\* What the visitor types into the listing form.
FormInputs ==
    { [title |-> S_MyLink, description |-> "d", url |-> "https://my.example",
       imageUrl |-> "", categoryId |-> "c01"],
      [title |-> S_Edited, description |-> "e", url |-> "", imageUrl |-> "img",
       categoryId |-> "c02"] }

\* The views the navigation of the template passes to setView.
ViewInputs == {"home", "publisher-dashboard", "admin-dashboard"}

\* postForm after resetPostForm.
EmptyForm == [title |-> <<>>, description |-> "", url |-> "", imageUrl |-> "",
              categoryId |-> ""]

\* The id of the first listing (category) of the store, once push() has handed
\* it out.
FirstPostKey == PostKeysIssued \cap {PostKeyNames[1]}
FirstCatKey == CatKeysIssued \cap {CatKeyNames[1]}

IdleReg == [pc |-> "idle", name |-> <<>>, email |-> "", role |-> ""]
\* loginForm = { email: '', password: '' }; the password shows in the model as the
\* outcome of the sign-in.
EmptyLoginForm == [email |-> ""]
IdleLogin == [pc |-> "idle", email |-> ""]
IdleSeed == [pc |-> 0, socialCatId |-> "", msgCatId |-> "", adminId |-> "",
             adminName |-> <<>>]

\* ------------------------------------------------------------------- Init
\* The state after the constructor, over a store holding `users` for the
\* credentials `creds`, in a browser whose persisted session is `session` (a uid,
\* or "null"): the first notification of onAuthStateChanged carries it.
Constructed(creds, users, session) ==
    /\ credentials = creds
    /\ dbUsers = users
    /\ authUser = session
    /\ dbPosts = EmptyDb
    /\ dbCategories = EmptyDb
    /\ nextPost = 1
    /\ nextCat = 1
    /\ now = 0
    /\ categories = <<>>
    /\ posts = <<>>
    /\ currentUser = Null
    /\ allUsers = <<>>
    /\ catDirty = TRUE
    /\ postDirty = TRUE
    /\ usersDirty = TRUE
    /\ authQueue = <<session>>
    /\ profileSubs = {}
    /\ profileDirty = {}
    /\ logoutPc = "idle"
    /\ reg = IdleReg
    /\ seed = IdleSeed
    /\ currentView = "home"
    /\ selectedPost = Null
    /\ editingPostId = "null"
    /\ postForm = EmptyForm
    /\ savePc = "idle"
    /\ loginForm = EmptyLoginForm
    /\ hl = IdleLogin
    /\ navTimers = <<>>
    /\ lastOp = Op("constructor", "ok", "")

\* A new store.
Init == Constructed({}, EmptyDb, "null")

\* A new store, or one in which the earlier release registered a publisher.
InitAuth ==
    \/ Init
    \/ Constructed({OtherEmail}, (UidOf(OtherEmail) :> LegacyProfile), "null")

\* The page is loaded in a browser in which a publisher is signed in.
InitStore ==
    Constructed({OtherEmail}, (UidOf(OtherEmail) :> LegacyProfile), UidOf(OtherEmail))

\* ------------------------------------------------- writes to the store
\* Each write marks the subscriptions on the subtree it changes.
WriteUsers(new) ==
    /\ dbUsers' = new
    /\ usersDirty' = (usersDirty \/ new # dbUsers)
    /\ profileDirty' =
         profileDirty \cup
           {u \in profileSubs :
              (u \in DOMAIN new) # (u \in DOMAIN dbUsers)
              \/ (u \in DOMAIN new /\ u \in DOMAIN dbUsers /\ new[u] # dbUsers[u])}

WritePosts(new) ==
    /\ dbPosts' = new
    /\ postDirty' = (postDirty \/ new # dbPosts)

WriteCategories(new) ==
    /\ dbCategories' = new
    /\ catDirty' = (catDirty \/ new # dbCategories)

usersFrame == UNCHANGED <<dbUsers, usersDirty, profileDirty>>
postsFrame == UNCHANGED <<dbPosts, postDirty, nextPost>>
catsFrame == UNCHANGED <<dbCategories, catDirty, nextCat>>
authFrame == UNCHANGED <<credentials, authUser, authQueue, profileSubs>>
signalsFrame == UNCHANGED <<categories, posts, currentUser, allUsers>>
procFrame == UNCHANGED <<logoutPc, reg, seed>>
loginFrame == UNCHANGED <<loginForm, hl, navTimers>>
uiFrame ==
    /\ UNCHANGED <<currentView, selectedPost, editingPostId, postForm, savePc>>
    /\ loginFrame

\* --------------------------------------------------- initData callbacks
\* The categories callback patching the local collection: it appends the entries
\* of the snapshot to those it holds.
categoriesSnapshot_Append ==
    /\ catDirty
    /\ catDirty' = FALSE
    /\ categories' = categories \o ToArray(dbCategories, CatKeyNames, 1)
    /\ lastOp' = Op("categoriesSnapshot", "ok", "")
    /\ UNCHANGED <<dbCategories, nextCat, posts, currentUser, allUsers, now>>
    /\ usersFrame /\ postsFrame /\ authFrame /\ procFrame
    /\ uiFrame

categoriesSnapshot ==
    /\ catDirty
    /\ catDirty' = FALSE
    /\ categories' = IF DOMAIN dbCategories # {}
                     THEN ToArray(dbCategories, CatKeyNames, 1)
                     ELSE <<>>
    /\ lastOp' = Op("categoriesSnapshot", "ok", "")
    /\ UNCHANGED <<dbCategories, nextCat, posts, currentUser, allUsers, now>>
    /\ usersFrame /\ postsFrame /\ authFrame /\ procFrame
    /\ uiFrame

postsSnapshot ==
    /\ postDirty
    /\ postDirty' = FALSE
    /\ \E sorted \in sort(ToArray(dbPosts, PostKeyNames, 1)) :
         posts' = IF DOMAIN dbPosts # {} THEN sorted ELSE <<>>
    /\ lastOp' = Op("postsSnapshot", "ok", "")
    /\ UNCHANGED <<dbPosts, nextPost, categories, currentUser, allUsers, now>>
    /\ usersFrame /\ catsFrame /\ authFrame /\ procFrame
    /\ uiFrame

usersSnapshot ==
    /\ usersDirty
    /\ usersDirty' = FALSE
    /\ allUsers' = IF DOMAIN dbUsers # {} THEN ToArray(dbUsers, UidOrder, 1) ELSE <<>>
    /\ lastOp' = Op("usersSnapshot", "ok", "")
    /\ UNCHANGED <<dbUsers, profileDirty, categories, posts, currentUser, now>>
    /\ postsFrame /\ catsFrame /\ authFrame /\ procFrame
    /\ uiFrame

\* --------------------------------------------------- initAuth callbacks
\* onAuthStateChanged's callback: a sign-in opens a listener on users/{uid}.
authStateChanged ==
    /\ authQueue # <<>>
    /\ authQueue' = Tail(authQueue)
    /\ IF Head(authQueue) # "null"
       THEN /\ profileSubs' = profileSubs \cup {Head(authQueue)}
            /\ profileDirty' = profileDirty \cup {Head(authQueue)}
            /\ UNCHANGED currentUser
       ELSE /\ currentUser' = Null
            /\ UNCHANGED <<profileSubs, profileDirty>>
    /\ lastOp' = Op("authStateChanged", "ok", "")
    /\ UNCHANGED <<credentials, authUser, dbUsers, usersDirty, categories, posts,
                   allUsers, now>>
    /\ postsFrame /\ catsFrame /\ procFrame
    /\ uiFrame

\* fallbackUser with the role of a publisher.
fallbackUser_AsPublisher(uid) ==
    [id |-> uid,
     email |-> CHOOSE e \in Emails : UidOf(e) = uid,
     name |-> S_User,
     role |-> "publisher",
     canEdit |-> TRUE]

fallbackUser(uid) ==
    [id |-> uid,
     email |-> CHOOSE e \in Emails : UidOf(e) = uid,
     name |-> S_User,
     role |-> "user",
     canEdit |-> TRUE]

\* The callback of onValue(users/{uid}), for the listener opened for uid.
profileSnapshot(uid) ==
    /\ uid \in profileDirty
    /\ profileDirty' = profileDirty \ {uid}
    /\ currentUser' = IF uid \in DOMAIN dbUsers
                      THEN Merge(dbUsers[uid], [id |-> uid])
                      ELSE fallbackUser(uid)
    /\ lastOp' = Op("profileSnapshot", "ok", uid)
    /\ UNCHANGED <<dbUsers, usersDirty, categories, posts, allUsers, now>>
    /\ postsFrame /\ catsFrame /\ authFrame /\ procFrame
    /\ uiFrame

\* ------------------------------------------------------------- mutations
\* push(ref(db, 'categories')) and set(newCatRef, {name, icon, slug}).
categoryRecord(name, icon) == [name |-> name, icon |-> icon, slug |-> slug(name)]

\* addCategory that also appends the new category to the local collection.
addCategory_Optimistic(name, icon) ==
    /\ nextCat <= MaxCatKey
    /\ WriteCategories(With(dbCategories, CatKeyNames[nextCat], categoryRecord(name, icon)))
    /\ nextCat' = nextCat + 1
    /\ categories' = Append(categories,
                            Merge(categoryRecord(name, icon), [id |-> CatKeyNames[nextCat]]))
    /\ lastOp' = Op("addCategory", "ok", CatKeyNames[nextCat])
    /\ UNCHANGED <<now, posts, currentUser, allUsers>>
    /\ usersFrame /\ postsFrame /\ authFrame /\ procFrame
    /\ uiFrame

addCategory(name, icon) ==
    /\ nextCat <= MaxCatKey
    /\ WriteCategories(With(dbCategories, CatKeyNames[nextCat], categoryRecord(name, icon)))
    /\ nextCat' = nextCat + 1
    /\ lastOp' = Op("addCategory", "ok", CatKeyNames[nextCat])
    /\ UNCHANGED now
    /\ usersFrame /\ postsFrame /\ authFrame /\ signalsFrame /\ procFrame
    /\ uiFrame

deleteCategory(id) ==
    /\ WriteCategories(Without(dbCategories, id))
    /\ lastOp' = Op("deleteCategory", "ok", "")
    /\ UNCHANGED <<nextCat, now>>
    /\ usersFrame /\ postsFrame /\ authFrame /\ signalsFrame /\ procFrame
    /\ uiFrame

\* The record addPost and seedDefaults set at a new posts/ id.
newPost(postData, authorId, authorName) ==
    Merge(postData,
          [views |-> 0, date |-> toISOString(now), publisherId |-> authorId,
           publisherName |-> authorName])

\* addPost: `storeOk` is whether the store accepts the write.
addPost(postData, storeOk) ==
    /\ IF currentUser = Null
       THEN /\ lastOp' = Op("addPost", "returned", "")
            /\ postsFrame
       ELSE IF ~canEdit
       THEN /\ lastOp' = Op("addPost", "PermissionDenied", "")
            /\ postsFrame
       ELSE IF ~storeOk \/ "name" \notin DOMAIN currentUser
       \* set() rejects: the store refuses the write, or publisherName is undefined
       THEN /\ lastOp' = Op("addPost", "StoreError", "")
            /\ postsFrame
       ELSE /\ nextPost <= MaxPostKey
            /\ WritePosts(With(dbPosts, PostKeyNames[nextPost],
                               newPost(postData, currentUser.id, currentUser.name)))
            /\ nextPost' = nextPost + 1
            /\ lastOp' = Op("addPost", "ok", PostKeyNames[nextPost])
    /\ UNCHANGED now
    /\ usersFrame /\ catsFrame /\ authFrame /\ signalsFrame /\ procFrame
    /\ uiFrame

\* set(ref(db, posts/id), postData) in place of update(): the record is replaced.
updated_Set(db, id, fields) == With(db, id, fields)

\* update(ref(db, posts/id), postData): merges into the record at id, which it
\* creates when there is none.
updated(db, id, fields) ==
    With(db, id, IF id \in DOMAIN db THEN Merge(db[id], fields) ELSE fields)

updatePost(id, postData, storeOk) ==
    /\ IF currentUser = Null
       THEN /\ lastOp' = Op("updatePost", "returned", "")
            /\ UNCHANGED <<dbPosts, postDirty>>
       ELSE IF ~canEdit
       THEN /\ lastOp' = Op("updatePost", "PermissionDenied", "")
            /\ UNCHANGED <<dbPosts, postDirty>>
       ELSE IF ~storeOk
       THEN /\ lastOp' = Op("updatePost", "StoreError", "")
            /\ UNCHANGED <<dbPosts, postDirty>>
       ELSE /\ WritePosts(updated(dbPosts, id, postData))
            /\ lastOp' = Op("updatePost", "ok", [id |-> id, postData |-> postData])
    /\ UNCHANGED <<nextPost, now>>
    /\ usersFrame /\ catsFrame /\ authFrame /\ signalsFrame /\ procFrame
    /\ uiFrame

\* deletePost with the permission check of updatePost.
deletePost_Guarded(id) ==
    /\ IF currentUser = Null
       THEN /\ lastOp' = Op("deletePost", "returned", id)
            /\ UNCHANGED <<dbPosts, postDirty>>
       ELSE IF ~canEdit
       THEN /\ lastOp' = Op("deletePost", "PermissionDenied", id)
            /\ UNCHANGED <<dbPosts, postDirty>>
       ELSE /\ WritePosts(Without(dbPosts, id))
            /\ lastOp' = Op("deletePost", "ok", id)
    /\ UNCHANGED <<nextPost, now>>
    /\ usersFrame /\ catsFrame /\ authFrame /\ signalsFrame /\ procFrame
    /\ uiFrame

deletePost(id) ==
    /\ WritePosts(Without(dbPosts, id))
    /\ lastOp' = Op("deletePost", "ok", id)
    /\ UNCHANGED <<nextPost, now>>
    /\ usersFrame /\ catsFrame /\ authFrame /\ signalsFrame /\ procFrame
    /\ uiFrame

\* The callers pass the id of an entry of allUsers: of a profile the store holds.
updateUserPermission(userId, flag) ==
    /\ WriteUsers(updated(dbUsers, userId, [canEdit |-> flag]))
    /\ lastOp' = Op("updateUserPermission", "ok", "")
    /\ UNCHANGED now
    /\ postsFrame /\ catsFrame /\ authFrame /\ signalsFrame /\ procFrame
    /\ uiFrame

\* ---------------------------------------------------------- seedDefaults
\* The four default listings, by position; each names one of the two categories
\* the call created.
defaults(socialCatId, msgCatId) ==
    << [title |-> S_Facebook, description |-> "Connect with friends",
        url |-> "https://facebook.com", imageUrl |-> "Facebook_f_logo.svg",
        categoryId |-> socialCatId],
       [title |-> S_WhatsApp, description |-> "Quickly send and receive",
        url |-> "https://web.whatsapp.com", imageUrl |-> "WhatsApp.svg",
        categoryId |-> msgCatId],
       [title |-> S_Telegram, description |-> "A new era of messaging",
        url |-> "https://web.telegram.org", imageUrl |-> "Telegram_logo.svg",
        categoryId |-> msgCatId],
       [title |-> S_YouTube, description |-> "Enjoy the videos and music",
        url |-> "https://youtube.com", imageUrl |-> "YouTube_icon.svg",
        categoryId |-> socialCatId] >>

\* seedDefaults up to its first await: addCategory('Social Media').
seedDefaults_start ==
    /\ seed.pc = 0
    /\ nextCat + 1 <= MaxSeedCatKey
    /\ nextPost + 3 <= MaxSeedPostKey
    /\ WriteCategories(With(dbCategories, CatKeyNames[nextCat],
                            categoryRecord(S_SocialMedia, "globe")))
    /\ nextCat' = nextCat + 1
    /\ seed' = [seed EXCEPT !.pc = 1, !.socialCatId = CatKeyNames[nextCat]]
    /\ lastOp' = Op("seedDefaults", "addCategory", CatKeyNames[nextCat])
    /\ UNCHANGED <<now, logoutPc, reg>>
    /\ usersFrame /\ postsFrame /\ authFrame /\ signalsFrame
    /\ uiFrame

\* ... resumed: addCategory('Messaging').
seedDefaults_messaging ==
    /\ seed.pc = 1
    /\ WriteCategories(With(dbCategories, CatKeyNames[nextCat],
                            categoryRecord(S_Messaging, "speech")))
    /\ nextCat' = nextCat + 1
    /\ seed' = [seed EXCEPT !.pc = 2, !.msgCatId = CatKeyNames[nextCat]]
    /\ lastOp' = Op("seedDefaults", "addCategory", CatKeyNames[nextCat])
    /\ UNCHANGED <<now, logoutPc, reg>>
    /\ usersFrame /\ postsFrame /\ authFrame /\ signalsFrame
    /\ uiFrame

\* adminUser ? adminUser.id : 'system'
\* The default listings attributed to 'system' whoever is signed in.
seedAuthorId_System == "system"

seedAuthorId == IF currentUser # Null THEN currentUser.id ELSE "system"

\* ... resumed: reads currentUser, then sets the first default listing.
seedDefaults_author ==
    /\ seed.pc = 2
    /\ IF currentUser # Null /\ "name" \notin DOMAIN currentUser
       \* set() throws on the undefined publisherName: seedDefaults rejects
       THEN /\ seed' = IdleSeed
            /\ lastOp' = Op("seedDefaults", "StoreError", "")
            /\ postsFrame
       ELSE LET adminId == seedAuthorId
                adminName == IF currentUser # Null THEN currentUser.name
                             ELSE S_SystemAdmin
            IN /\ WritePosts(With(dbPosts, PostKeyNames[nextPost],
                                  newPost(defaults(seed.socialCatId, seed.msgCatId)[1],
                                          adminId, adminName)))
               /\ nextPost' = nextPost + 1
               /\ seed' = [seed EXCEPT !.pc = 3, !.adminId = adminId,
                                       !.adminName = adminName]
               /\ lastOp' = Op("seedDefaults", "post", PostKeyNames[nextPost])
    /\ UNCHANGED <<now, logoutPc, reg>>
    /\ usersFrame /\ catsFrame /\ authFrame /\ signalsFrame
    /\ uiFrame

\* ... resumed: the next default listing (the second to the fourth).
seedDefaults_post ==
    /\ seed.pc \in 3..5
    /\ WritePosts(With(dbPosts, PostKeyNames[nextPost],
                       newPost(defaults(seed.socialCatId, seed.msgCatId)[seed.pc - 1],
                               seed.adminId, seed.adminName)))
    /\ nextPost' = nextPost + 1
    /\ seed' = [seed EXCEPT !.pc = seed.pc + 1]
    /\ lastOp' = Op("seedDefaults", "post", PostKeyNames[nextPost])
    /\ UNCHANGED <<now, logoutPc, reg>>
    /\ usersFrame /\ catsFrame /\ authFrame /\ signalsFrame
    /\ uiFrame

\* ... resumed after the last set(): the call completes.
seedDefaults_done ==
    /\ seed.pc = 6
    /\ seed' = IdleSeed
    /\ lastOp' = Op("seedDefaults", "ok", "")
    /\ UNCHANGED <<now, logoutPc, reg>>
    /\ usersFrame /\ postsFrame /\ catsFrame /\ authFrame /\ signalsFrame
    /\ uiFrame

\* ------------------------------------------------------------------ auth
\* The store's session becomes `uid`; the listeners of onAuthStateChanged are
\* notified when the signed-in uid changes.
SignedIn(uid) ==
    /\ authUser' = uid
    /\ authQueue' = IF uid # authUser THEN Append(authQueue, uid) ELSE authQueue

\* signInWithEmailAndPassword succeeds only for an email that has a credential; it
\* fails for a wrong password or a missing credential (auth/invalid-credential) or
\* for a failure of the network. login rethrows the store's error.
login(email, code) ==
    /\ Len(authQueue) < MaxAuthQueue
    /\ IF code = "ok"
       THEN /\ email \in credentials
            /\ SignedIn(UidOf(email))
       ELSE /\ UNCHANGED <<authUser, authQueue>>
    /\ lastOp' = Op("login", code, "")
    /\ UNCHANGED <<credentials, profileSubs, now>>
    /\ usersFrame /\ postsFrame /\ catsFrame /\ signalsFrame /\ procFrame
    /\ uiFrame

\* logout up to its await: signOut(auth).
logout_signOut ==
    /\ logoutPc = "idle"
    /\ Len(authQueue) < MaxAuthQueue
    /\ SignedIn("null")
    /\ logoutPc' = "signOut"
    /\ lastOp' = Op("logout", "signOut", "")
    /\ UNCHANGED <<credentials, profileSubs, now, reg, seed>>
    /\ usersFrame /\ postsFrame /\ catsFrame /\ signalsFrame
    /\ uiFrame

\* logout without its last statement.
logout_clear_NoSet ==
    /\ logoutPc = "signOut"
    /\ logoutPc' = "idle"
    /\ lastOp' = Op("logout", "ok", "")
    /\ UNCHANGED <<categories, posts, currentUser, allUsers, now, reg, seed>>
    /\ usersFrame /\ postsFrame /\ catsFrame /\ authFrame
    /\ uiFrame

\* ... resumed: this.currentUser.set(null).
logout_clear ==
    /\ logoutPc = "signOut"
    /\ logoutPc' = "idle"
    /\ currentUser' = Null
    /\ lastOp' = Op("logout", "ok", "")
    /\ UNCHANGED <<categories, posts, allUsers, now, reg, seed>>
    /\ usersFrame /\ postsFrame /\ catsFrame /\ authFrame
    /\ uiFrame

\* register without the override for the hardcoded address.
finalRole_AsRequested(email, role) == role

\* finalRole of register.
finalRole(email, role) == IF email = AdminEmail THEN "admin" ELSE role

\* register up to its first await: createUserWithEmailAndPassword, which signs the
\* new credential in, or fails because the email is in use.
register_create(name, email, role, code) ==
    /\ reg.pc = "idle"
    /\ Len(authQueue) < MaxAuthQueue
    /\ IF code = "ok"
       THEN /\ email \notin credentials
            /\ credentials' = credentials \cup {email}
            /\ SignedIn(UidOf(email))
            /\ reg' = [pc |-> "set", name |-> name, email |-> email, role |-> role]
            /\ lastOp' = Op("register", "created", [email |-> email, role |-> role])
       ELSE /\ email \in credentials
            /\ UNCHANGED <<credentials, authUser, authQueue, reg>>
            /\ lastOp' = Op("register", code, "")
    /\ UNCHANGED <<profileSubs, now, logoutPc, seed>>
    /\ usersFrame /\ postsFrame /\ catsFrame /\ signalsFrame
    /\ uiFrame

\* register swallowing the error of the profile write: it returns true.
register_set_Swallow(storeOk) ==
    /\ reg.pc = "set"
    /\ IF storeOk
       THEN WriteUsers(With(dbUsers, UidOf(reg.email),
                            [name |-> reg.name, email |-> reg.email,
                             role |-> finalRole(reg.email, reg.role),
                             canEdit |-> TRUE]))
       ELSE usersFrame
    /\ lastOp' = Op("register", "ok", [email |-> reg.email, role |-> reg.role])
    /\ reg' = IdleReg
    /\ UNCHANGED <<now, logoutPc, seed>>
    /\ postsFrame /\ catsFrame /\ authFrame /\ signalsFrame
    /\ uiFrame

\* ... resumed: set(users/{uid}, newUser); `storeOk` is whether the store accepts it.
register_set(storeOk) ==
    /\ reg.pc = "set"
    /\ IF storeOk
       THEN /\ WriteUsers(With(dbUsers, UidOf(reg.email),
                               [name |-> reg.name, email |-> reg.email,
                                role |-> finalRole(reg.email, reg.role),
                                canEdit |-> TRUE]))
            /\ lastOp' = Op("register", "ok", [email |-> reg.email, role |-> reg.role])
       ELSE /\ usersFrame
            /\ lastOp' = Op("register", "StoreError",
                            [email |-> reg.email, role |-> reg.role])
    /\ reg' = IdleReg
    /\ UNCHANGED <<now, logoutPc, seed>>
    /\ postsFrame /\ catsFrame /\ authFrame /\ signalsFrame
    /\ uiFrame

\* new Date() advances.
tick ==
    /\ now < MaxTime
    /\ now' = now + 1
    /\ lastOp' = Op("tick", "ok", "")
    /\ usersFrame /\ postsFrame /\ catsFrame /\ authFrame /\ signalsFrame /\ procFrame
    /\ uiFrame

\* ---------------------------------------------------------- AppComponent
\* this.editingPostId.set(null); this.postForm = { title: '', ... }
resetPostForm ==
    /\ editingPostId' = "null"
    /\ postForm' = EmptyForm

setView(view) ==
    /\ currentView' = view
    /\ selectedPost' = Null
    /\ resetPostForm
    /\ lastOp' = Op("setView", "ok", view)
    /\ UNCHANGED <<savePc, now>>
    /\ usersFrame /\ postsFrame /\ catsFrame /\ authFrame /\ signalsFrame /\ procFrame
    /\ loginFrame

\* The form fields editPost copies from the listing.
FormOf(post) == [f \in FormFields \cap DOMAIN post |-> post[f]]

\* editPost(post), post being an entry of the listings the view shows. For an
\* admin and for a publisher it ends with setView, which calls resetPostForm.
editPost(post) ==
    /\ IF ~canEdit
       THEN /\ lastOp' = Op("editPost", "alert", post.id)
            /\ UNCHANGED <<currentView, selectedPost, editingPostId, postForm>>
       ELSE /\ lastOp' = Op("editPost", "ok", post.id)
            /\ IF "role" \in DOMAIN currentUser /\ currentUser.role = "admin"
               THEN /\ currentView' = "admin-dashboard"
                    /\ selectedPost' = Null
                    /\ resetPostForm
               ELSE IF "role" \in DOMAIN currentUser /\ currentUser.role = "publisher"
               THEN /\ currentView' = "publisher-dashboard"
                    /\ selectedPost' = Null
                    /\ resetPostForm
               ELSE /\ editingPostId' = post.id
                    /\ postForm' = FormOf(post)
                    /\ UNCHANGED <<currentView, selectedPost>>
    /\ UNCHANGED <<savePc, now>>
    /\ usersFrame /\ postsFrame /\ catsFrame /\ authFrame /\ signalsFrame /\ procFrame
    /\ loginFrame

\* The template binds the inputs of the listing form to postForm.
typePostForm(form) ==
    /\ postForm' = form
    /\ lastOp' = Op("typePostForm", "ok", "")
    /\ UNCHANGED <<currentView, selectedPost, editingPostId, savePc, now>>
    /\ usersFrame /\ postsFrame /\ catsFrame /\ authFrame /\ signalsFrame /\ procFrame
    /\ loginFrame

\* postData of savePost: the form, with a random picture for an empty imageUrl.
savePostData ==
    [title |-> postForm.title, description |-> postForm.description,
     url |-> postForm.url,
     imageUrl |-> IF postForm.imageUrl = "" THEN "https://picsum.photos/400/200"
                  ELSE postForm.imageUrl,
     categoryId |-> postForm.categoryId]

\* savePost up to its await: the checks, then updatePost or addPost, whose own
\* checks pass as canEdit is true. An error of the store is caught and reported.
savePost_call(storeOk) ==
    /\ savePc = "idle"
    /\ IF ~canEdit
       THEN /\ lastOp' = Op("savePost", "alert: restricted", "")
            /\ UNCHANGED savePc
            /\ postsFrame
       ELSE IF postForm.title = <<>> \/ postForm.url = "" \/ postForm.categoryId = ""
       THEN /\ lastOp' = Op("savePost", "alert: required", "")
            /\ UNCHANGED savePc
            /\ postsFrame
       ELSE IF editingPostId # "null"
       THEN IF storeOk
            THEN /\ WritePosts(updated(dbPosts, editingPostId, savePostData))
                 /\ lastOp' = Op("savePost", "updatePost", editingPostId)
                 /\ savePc' = "await"
                 /\ UNCHANGED nextPost
            ELSE /\ lastOp' = Op("savePost", "alert: error", "")
                 /\ UNCHANGED savePc
                 /\ postsFrame
       ELSE IF storeOk /\ "name" \in DOMAIN currentUser
            THEN /\ nextPost <= MaxPostKey
                 /\ WritePosts(With(dbPosts, PostKeyNames[nextPost],
                                    newPost(savePostData, currentUser.id, currentUser.name)))
                 /\ nextPost' = nextPost + 1
                 /\ lastOp' = Op("savePost", "addPost", PostKeyNames[nextPost])
                 /\ savePc' = "await"
            ELSE /\ lastOp' = Op("savePost", "alert: error", "")
                 /\ UNCHANGED savePc
                 /\ postsFrame
    /\ UNCHANGED <<currentView, selectedPost, editingPostId, postForm, now>>
    /\ usersFrame /\ catsFrame /\ authFrame /\ signalsFrame /\ procFrame
    /\ loginFrame

\* ... resumed after the await: alert, then resetPostForm.
savePost_done ==
    /\ savePc = "await"
    /\ savePc' = "idle"
    /\ resetPostForm
    /\ lastOp' = Op("savePost", "ok", "")
    /\ UNCHANGED <<currentView, selectedPost, now>>
    /\ usersFrame /\ postsFrame /\ catsFrame /\ authFrame /\ signalsFrame /\ procFrame
    /\ loginFrame

\* The template binds the inputs of the login form to loginForm.
typeLoginForm(email) ==
    /\ loginForm' = [email |-> email]
    /\ lastOp' = Op("typeLoginForm", "ok", email)
    /\ UNCHANGED <<hl, navTimers, now>>
    /\ UNCHANGED <<currentView, selectedPost, editingPostId, postForm, savePc>>
    /\ usersFrame /\ postsFrame /\ catsFrame /\ authFrame /\ signalsFrame /\ procFrame

\* error.code === 'auth/invalid-credential' || error.code === 'auth/user-not-found'
\* || error.message?.includes('invalid-credential'): the message of an error of
\* the store names its code.
isCredentialError(code) == code \in {"auth/invalid-credential", "auth/user-not-found"}

\* this.loginForm.email === 'moinulbd.sk@gmail.com', read in the catch block.
isDemoAdmin == loginForm.email = AdminEmail

\* handleLogin up to its await: dataService.login(loginForm.email, password).
handleLogin_call ==
    /\ hl.pc = "idle"
    /\ Len(navTimers) < MaxNavTimers
    /\ hl' = [pc |-> "login", email |-> loginForm.email]
    /\ lastOp' = Op("handleLogin", "login", loginForm.email)
    /\ UNCHANGED <<loginForm, navTimers, now>>
    /\ UNCHANGED <<currentView, selectedPost, editingPostId, postForm, savePc>>
    /\ usersFrame /\ postsFrame /\ catsFrame /\ authFrame /\ signalsFrame /\ procFrame

\* ... resumed with the outcome of the sign-in: an empty email is rejected as
\* invalid, a missing credential as not found or invalid. On success the form is cleared and
\* the navigation by role is scheduled; on failure the catch block registers the
\* demo admin or reports the failure.
handleLogin_signedIn(code) ==
    /\ hl.pc = "login"
    /\ code = "auth/user-not-found" => hl.email \notin credentials
    /\ code = "auth/invalid-email" <=> hl.email = ""
    /\ IF code = "ok"
       THEN /\ hl.email \in credentials
            /\ Len(authQueue) < MaxAuthQueue
            /\ SignedIn(UidOf(hl.email))
            /\ loginForm' = EmptyLoginForm
            /\ navTimers' = Append(navTimers, "byRole")
            /\ hl' = IdleLogin
            /\ lastOp' = Op("handleLogin", "signed in", [email |-> hl.email, code |-> code])
       ELSE /\ UNCHANGED <<authUser, authQueue, loginForm, navTimers>>
            /\ IF isDemoAdmin /\ isCredentialError(code)
               THEN /\ hl' = [pc |-> "create", email |-> loginForm.email]
                    /\ lastOp' = Op("handleLogin", "register",
                                    [email |-> hl.email, code |-> code])
               ELSE /\ hl' = IdleLogin
                    /\ lastOp' = Op("handleLogin", "alert: login failed",
                                    [email |-> hl.email, code |-> code])
    /\ UNCHANGED <<credentials, profileSubs, now>>
    /\ UNCHANGED <<currentView, selectedPost, editingPostId, postForm, savePc>>
    /\ usersFrame /\ postsFrame /\ catsFrame /\ signalsFrame /\ procFrame

\* ... register('Demo Admin', email, password, 'user') resumed with the outcome of
\* createUserWithEmailAndPassword; its error is rethrown and reported.
handleLogin_created(code) ==
    /\ hl.pc = "create"
    /\ IF code = "ok"
       THEN /\ hl.email \notin credentials
            /\ Len(authQueue) < MaxAuthQueue
            /\ credentials' = credentials \cup {hl.email}
            /\ SignedIn(UidOf(hl.email))
            /\ hl' = [hl EXCEPT !.pc = "set"]
            /\ lastOp' = Op("handleLogin", "created", [email |-> hl.email, code |-> code])
       ELSE /\ hl.email \in credentials
            /\ UNCHANGED <<credentials, authUser, authQueue>>
            /\ hl' = IdleLogin
            /\ lastOp' = Op("handleLogin", "alert: register failed",
                            [email |-> hl.email, code |-> code])
    /\ UNCHANGED <<profileSubs, loginForm, navTimers, now>>
    /\ UNCHANGED <<currentView, selectedPost, editingPostId, postForm, savePc>>
    /\ usersFrame /\ postsFrame /\ catsFrame /\ signalsFrame /\ procFrame

\* ... register resumed with the outcome of set(users/{uid}, newUser): on success
\* handleLogin schedules the navigation to the admin dashboard and returns.
handleLogin_profileSet(storeOk) ==
    /\ hl.pc = "set"
    /\ IF storeOk
       THEN /\ WriteUsers(With(dbUsers, UidOf(hl.email),
                               [name |-> S_DemoAdmin, email |-> hl.email,
                                role |-> finalRole(hl.email, "user"),
                                canEdit |-> TRUE]))
            /\ navTimers' = Append(navTimers, "admin")
            /\ lastOp' = Op("handleLogin", "registered",
                            [email |-> hl.email, code |-> "ok"])
       ELSE /\ usersFrame
            /\ UNCHANGED navTimers
            /\ lastOp' = Op("handleLogin", "alert: register failed",
                            [email |-> hl.email, code |-> "StoreError"])
    /\ hl' = IdleLogin
    /\ UNCHANGED <<loginForm, now>>
    /\ UNCHANGED <<currentView, selectedPost, editingPostId, postForm, savePc>>
    /\ postsFrame /\ catsFrame /\ authFrame /\ signalsFrame /\ procFrame

\* The view the timer of a successful sign-in navigates to.
viewOfRole(user) ==
    IF user # Null /\ "role" \in DOMAIN user /\ user.role = "admin"
    THEN "admin-dashboard"
    ELSE IF user # Null /\ "role" \in DOMAIN user /\ user.role = "publisher"
         THEN "publisher-dashboard"
         ELSE "home"

\* The oldest pending timer fires, 500 ms after it was set: setView of the view
\* by the role of currentUser, or of the admin dashboard after a registration.
navTimer ==
    /\ navTimers # <<>>
    /\ navTimers' = Tail(navTimers)
    /\ currentView' = IF Head(navTimers) = "byRole" THEN viewOfRole(currentUser)
                      ELSE "admin-dashboard"
    /\ selectedPost' = Null
    /\ resetPostForm
    /\ lastOp' = Op("navTimer", Head(navTimers), "")
    /\ UNCHANGED <<loginForm, hl, savePc, now>>
    /\ usersFrame /\ postsFrame /\ catsFrame /\ authFrame /\ signalsFrame /\ procFrame

\* The sign-in outcomes handleLogin distinguishes.
HandleLoginCodes ==
    {"ok", "auth/invalid-credential", "auth/user-not-found", "auth/invalid-email",
     "auth/network-request-failed"}

LoginCodes == {"ok", "auth/invalid-credential", "auth/network-request-failed"}
RegisterCodes == {"ok", "auth/email-already-in-use"}

\* The session and the identities.
NextAuth ==
    \/ authStateChanged
    \/ \E uid \in Uids : profileSnapshot(uid)
    \/ \E uid \in DOMAIN dbUsers, flag \in BOOLEAN : updateUserPermission(uid, flag)
    \/ \E e \in Emails, code \in LoginCodes : login(e, code)
    \/ logout_signOut
    \/ logout_clear
    \/ \E n \in RegisterNames, e \in Emails, r \in RegisterRoles, code \in RegisterCodes :
         register_create(n, e, r, code)
    \/ \E ok \in BOOLEAN : register_set(ok)

\* The listings.
NextPosts ==
    \/ postsSnapshot
    \/ \E d \in PostInputs, ok \in BOOLEAN : addPost(d, ok)
    \/ \E id \in PostKeysIssued, d \in UpdateInputs, ok \in BOOLEAN : updatePost(id, d, ok)
    \/ \E id \in PostKeysIssued : deletePost(id)
    \/ tick

\* The listings, while the hardcoded admin address registers, signs in and signs
\* out.
Next ==
    \/ authStateChanged
    \/ \E uid \in Uids : profileSnapshot(uid)
    \/ \E n \in RegisterNames, r \in RegisterRoles : register_create(n, AdminEmail, r, "ok")
    \/ \E ok \in BOOLEAN : register_set(ok)
    \/ logout_signOut
    \/ logout_clear
    \/ NextPosts

Spec == Init /\ [][Next]_vars

\* The session and the identities alone. No operation on listings or categories
\* writes what these actions read, and of what these actions write they read
\* currentUser only.
SpecAuth == InitAuth /\ [][NextAuth]_vars

\* A publisher whose session the browser persisted works on the listings, while
\* updateUserPermission toggles the editable-flag.
NextPublisher ==
    \/ authStateChanged
    \/ \E uid \in Uids : profileSnapshot(uid)
    \/ \E uid \in DOMAIN dbUsers, flag \in BOOLEAN : updateUserPermission(uid, flag)
    \/ usersSnapshot
    \/ postsSnapshot
    \/ \E d \in PostInputs : addPost(d, TRUE)
    \/ \E id \in PostKeysIssued, d \in UpdateInputs : updatePost(id, d, TRUE)
    \/ \E id \in PostKeysIssued : deletePost(id)

\* Every mutation of the store, from a new store in which the hardcoded admin
\* address registers. A call is made while no seedDefaults is in flight, and
\* seedDefaults once, before the other calls have used up the ids; snapshots and
\* notifications arrive at any time.
NextStore ==
    \/ categoriesSnapshot
    \/ postsSnapshot
    \/ usersSnapshot
    \/ authStateChanged
    \/ \E uid \in Uids : profileSnapshot(uid)
    \/ nextCat + 1 <= MaxCatKey /\ nextPost + 1 <= MaxPostKey /\ seedDefaults_start
    \/ seedDefaults_messaging
    \/ seedDefaults_author
    \/ seedDefaults_post
    \/ seedDefaults_done
    \/ seed.pc = 0 /\ register_create(S_Ann, AdminEmail, "user", "ok")
    \/ seed.pc = 0 /\ register_set(TRUE)
    \/ seed.pc = 0 /\ \E uid \in DOMAIN dbUsers : updateUserPermission(uid, FALSE)
    \/ seed.pc = 0 /\ addCategory(S_TechNews, "#")
    \/ seed.pc = 0 /\ \E id \in FirstCatKey : deleteCategory(id)
    \/ seed.pc = 0 /\ \E d \in PostInputs : addPost(d, TRUE)
    \/ seed.pc = 0 /\ \E id \in FirstPostKey, d \in UpdateInputs : updatePost(id, d, TRUE)
    \/ seed.pc = 0 /\ \E id \in FirstPostKey : deletePost(id)

SpecStore == Init /\ [][NextStore]_vars

\* seedDefaults called again and again by the publisher of a persisted session,
\* before and after its profile arrives and while its editable-flag is switched.
NextSeed ==
    \/ authStateChanged
    \/ \E uid \in Uids : profileSnapshot(uid)
    \/ \E uid \in DOMAIN dbUsers, flag \in BOOLEAN : updateUserPermission(uid, flag)
    \/ categoriesSnapshot
    \/ postsSnapshot
    \/ seedDefaults_start
    \/ seedDefaults_messaging
    \/ seedDefaults_author
    \/ seedDefaults_post
    \/ seedDefaults_done

SpecSeed == InitStore /\ [][NextSeed]_vars

\* The login form of the controller, over a new store and over one that holds a
\* publisher; the identity signs out between sign-ins.
NextLogin ==
    \/ authStateChanged
    \/ \E uid \in Uids : profileSnapshot(uid)
    \/ \E e \in Emails : typeLoginForm(e)
    \/ handleLogin_call
    \/ \E code \in HandleLoginCodes : handleLogin_signedIn(code)
    \/ \E code \in RegisterCodes : handleLogin_created(code)
    \/ \E ok \in BOOLEAN : handleLogin_profileSet(ok)
    \/ navTimer
    \/ logout_signOut
    \/ logout_clear

SpecLogin == InitAuth /\ [][NextLogin]_vars

\* The listing form of the controller, for the identities that register.
NextUI ==
    \/ authStateChanged
    \/ \E uid \in Uids : profileSnapshot(uid)
    \/ \E n \in RegisterNames, e \in Emails, r \in RegisterRoles :
         register_create(n, e, r, "ok")
    \/ register_set(TRUE)
    \/ postsSnapshot
    \/ \E form \in FormInputs : typePostForm(form)
    \/ \E ok \in BOOLEAN : savePost_call(ok)
    \/ savePost_done
    \/ \E i \in 1..Len(posts) : editPost(posts[i])
    \/ \E view \in ViewInputs : setView(view)

SpecUI == Init /\ [][NextUI]_vars

\* The categories.
NextCategories ==
    \/ categoriesSnapshot
    \/ \E c \in CategoryInputs : addCategory(c.name, c.icon)
    \/ \E id \in CatKeysIssued : deleteCategory(id)

SpecCategories == Init /\ [][NextCategories]_vars

SpecPublisher == InitStore /\ [][NextPublisher]_vars

\* ------------------------------------------------------------------ claims
HasRole(r) ==
    currentUser # Null /\ "role" \in DOMAIN currentUser /\ currentUser.role = r

\* The editable-flag of the current identity is explicitly false.
FlagFalse == "canEdit" \in DOMAIN currentUser /\ currentUser.canEdit = FALSE

\* C1: a call of addPost fails with PermissionDenied if and only if canEdit is
\* false when it is called, whatever currentUser is (absent included), and a call
\* that fails so writes no listing.
C1_AddPostDeniedIffCannotEdit ==
    [][lastOp'.op = "addPost" =>
         /\ (lastOp'.result = "PermissionDenied") <=> ~canEdit
         /\ lastOp'.result = "PermissionDenied" => dbPosts' = dbPosts]_vars

\* C2: whenever currentUser is present with role user, canEdit is false, whatever
\* its editable-flag is; the fallback profile included.
C2_UserCannotEdit == HasRole("user") => ~canEdit

\* C3: when logout completes, currentUser is absent and isAdmin, isPublisher and
\* canEdit are false, whether or not the notification of the sign-out has been
\* delivered.
C3_LogoutClearsIdentity ==
    (lastOp.op = "logout" /\ lastOp.result = "ok") =>
        currentUser = Null /\ ~isAdmin /\ ~isPublisher /\ ~canEdit

\* logout has completed for an identity that had signed in, while the
\* notification of its sign-out is still to be delivered.
C3_Witness ==
    /\ lastOp.op = "logout" /\ lastOp.result = "ok"
    /\ authQueue = <<"null">>
    /\ profileSubs # {}
    /\ currentUser = Null

\* C4: once signed out, with currentUser absent, no step other than a sign-in
\* makes currentUser present: a snapshot of the profile subscription of the
\* identity that signed out changes nothing.
C4_StaleProfileSnapshotIgnored ==
    [][(authUser = "null" /\ authUser' = "null" /\ logoutPc = "idle"
            /\ authQueue = <<>> /\ currentUser = Null)
         => currentUser' = Null]_vars

\* C5: addPost and updatePost write to posts/ only when the current identity has
\* role publisher or admin and its editable-flag is not false.
C5_WritesOnlyByPermittedRole ==
    [][(lastOp'.op \in {"addPost", "updatePost"} /\ dbPosts' # dbPosts) =>
         /\ HasRole("publisher") \/ HasRole("admin")
         /\ ~FlagFalse]_vars

\* C6: the listing a step of addPost or of seedDefaults has just written names as
\* its author the id of a profile the users collection of the store holds.
C6_AuthorIsStoredIdentity ==
    (\/ lastOp.op = "addPost" /\ lastOp.result = "ok"
     \/ lastOp.op = "seedDefaults" /\ lastOp.result = "post") =>
        dbPosts[lastOp.arg].publisherId \in DOMAIN dbUsers

\* C7: a call of updatePost while canEdit is false (no identity signed in
\* included) fails with PermissionDenied and leaves posts/ unchanged; it writes
\* only while canEdit is true.
C7_UpdatePostRequiresCanEdit ==
    [][lastOp'.op = "updatePost" =>
         /\ ~canEdit => (lastOp'.result = "PermissionDenied" /\ dbPosts' = dbPosts)
         /\ dbPosts' # dbPosts => canEdit]_vars

\* C8: when register succeeds, users/{new uid} holds a profile whose role is admin
\* for the hardcoded address, whatever role was requested, and the requested role
\* for any other address; its editable-flag is true.
C8_RegisterRole ==
    (lastOp.op = "register" /\ lastOp.result = "ok") =>
        LET uid == UidOf(lastOp.arg.email)
        IN /\ uid \in DOMAIN dbUsers
           /\ dbUsers[uid].email = lastOp.arg.email
           /\ dbUsers[uid].role = IF lastOp.arg.email = "moinulbd.sk@gmail.com"
                                  THEN "admin"
                                  ELSE lastOp.arg.role
           /\ dbUsers[uid].canEdit = TRUE

\* register has succeeded for the hardcoded address with the role user requested.
C8_Witness ==
    /\ lastOp.op = "register" /\ lastOp.result = "ok"
    /\ lastOp.arg = [email |-> AdminEmail, role |-> "user"]
    /\ dbUsers[UidOf(AdminEmail)].role = "admin"

\* C9: canEdit is false with no identity signed in, true for an admin whatever its
\* editable-flag, and for a publisher false exactly when its editable-flag is
\* false (an unset flag counts as true).
C9_CanEditTable ==
    /\ currentUser = Null => ~canEdit
    /\ HasRole("admin") => canEdit
    /\ HasRole("publisher") => (canEdit <=> ~FlagFalse)

\* An admin whose editable-flag is false is signed in.
C9_Witness == HasRole("admin") /\ FlagFalse /\ canEdit

\* C10: after a snapshot of posts/, each listing of the local collection has a
\* timestamp greater than or equal to that of the listing after it.
C10_PostsSortedNewestFirst ==
    lastOp.op = "postsSnapshot" =>
        \A i \in 1..(Len(posts) - 1) :
            NumGE(getTime(posts[i]), getTime(posts[i + 1]))

C13_Upper == <<"A", "B", "C", "D", "E", "F", "G", "H", "I", "J", "K", "L", "M", "N",
               "O", "P", "Q", "R", "S", "T", "U", "V", "W", "X", "Y", "Z">>
C13_Lower == <<"a", "b", "c", "d", "e", "f", "g", "h", "i", "j", "k", "l", "m", "n",
               "o", "p", "q", "r", "s", "t", "u", "v", "w", "x", "y", "z">>
C13_LowerOf(c) ==
    IF \E i \in 1..26 : C13_Upper[i] = c
    THEN C13_Lower[CHOOSE i \in 1..26 : C13_Upper[i] = c]
    ELSE c
C13_Blank(c) == c \in {" ", "\t", "\n"}

\* The name in lowercase, each space (tab, line break) replaced by a hyphen.
C13_EachSpace(name) ==
    [i \in 1..Len(name) |-> IF C13_Blank(name[i]) THEN "-" ELSE C13_LowerOf(name[i])]

\* The name in lowercase from position i on, each run of white space replaced by
\* one hyphen (at the first character of the run).
RECURSIVE C13_RunsFrom(_, _)
C13_RunsFrom(name, i) ==
    IF i > Len(name) THEN <<>>
    ELSE (IF ~C13_Blank(name[i]) THEN <<C13_LowerOf(name[i])>>
          ELSE IF i > 1 /\ C13_Blank(name[i - 1]) THEN <<>>
          ELSE <<"-">>) \o C13_RunsFrom(name, i + 1)

\* addCategory has written one new entry, at the id it returns, which holds the
\* name and the icon passed.
C13_OneNewCategory ==
    /\ lastOp'.result = "ok"
    /\ lastOp'.arg \notin DOMAIN dbCategories
    /\ DOMAIN dbCategories' = DOMAIN dbCategories \cup {lastOp'.arg}
    /\ \A k \in DOMAIN dbCategories : dbCategories'[k] = dbCategories[k]
    /\ DOMAIN dbCategories'[lastOp'.arg] = {"name", "icon", "slug"}

\* C13 (as stated): addCategory writes one new category at a generated id, which
\* it returns, and the slug is the lowercase name with every space replaced by a
\* hyphen.
C13_SlugEachSpace ==
    [][lastOp'.op = "addCategory" =>
         /\ C13_OneNewCategory
         /\ dbCategories'[lastOp'.arg].slug =
              C13_EachSpace(dbCategories'[lastOp'.arg].name)]_vars

\* C13 (amended): addCategory writes one new category at a generated id, which it
\* returns, and the slug is the lowercase name with every run of white space
\* (spaces, tabs, line breaks) replaced by one hyphen.
C13_SlugRunsCollapsed ==
    [][lastOp'.op = "addCategory" =>
         /\ C13_OneNewCategory
         /\ dbCategories'[lastOp'.arg].slug =
              C13_RunsFrom(dbCategories'[lastOp'.arg].name, 1)]_vars

\* A category whose name has two spaces in a row has been created, with one
\* hyphen in its slug.
C13_Witness ==
    /\ lastOp.op = "addCategory"
    /\ lastOp.arg \in DOMAIN dbCategories
    /\ dbCategories[lastOp.arg].name = <<"A", " ", " ", "b">>
    /\ dbCategories[lastOp.arg].slug = <<"a", "-", "b">>

\* C12: addCategory, deleteCategory and updateUserPermission change the store
\* only when the current identity has role admin.
C12_AdminOnlyWrites ==
    [][(/\ lastOp'.op \in {"addCategory", "deleteCategory", "updateUserPermission"}
        /\ (dbCategories' # dbCategories \/ dbUsers' # dbUsers))
         => HasRole("admin")]_vars

\* The mutations of the store.
C20_Mutations ==
    {"addCategory", "deleteCategory", "addPost", "updatePost", "deletePost",
     "updateUserPermission", "seedDefaults", "register"}

\* C20: no step of a mutation changes the local categories, posts or allUsers;
\* each of them changes only in the step that delivers a snapshot of its subtree.
C20_LocalCollectionsChangeOnlyBySnapshot ==
    [][/\ lastOp'.op \in C20_Mutations =>
            (categories' = categories /\ posts' = posts /\ allUsers' = allUsers)
       /\ categories' # categories => lastOp'.op = "categoriesSnapshot"
       /\ posts' # posts => lastOp'.op = "postsSnapshot"
       /\ allUsers' # allUsers => lastOp'.op = "usersSnapshot"]_vars

\* seedDefaults has completed and no snapshot of what it wrote has been delivered:
\* the store holds its categories and listings, the local collections hold none.
C20_Witness ==
    /\ lastOp.op = "seedDefaults" /\ lastOp.result = "ok"
    /\ Cardinality(DOMAIN dbPosts) = 4 /\ posts = <<>>
    /\ Cardinality(DOMAIN dbCategories) = 2 /\ categories = <<>>
    /\ Len(allUsers) = 1

\* text contains q, letters compared without regard to case.
C14_ContainsCI(text, q) ==
    \E k \in 0..(Len(text) - Len(q)) :
        \A i \in 1..Len(q) : C13_LowerOf(text[k + i]) = C13_LowerOf(q[i])

C14_Matches(post, q, cat) ==
    /\ \/ "title" \in DOMAIN post /\ C14_ContainsCI(post.title, q)
       \/ "publisherName" \in DOMAIN post /\ C14_ContainsCI(post.publisherName, q)
    /\ cat = "all" \/ ("categoryId" \in DOMAIN post /\ post.categoryId = cat)

\* The listings of posts that match, in the order of posts.
RECURSIVE C14_MatchingFrom(_, _, _)
C14_MatchingFrom(i, q, cat) ==
    IF i > Len(posts) THEN <<>>
    ELSE (IF C14_Matches(posts[i], q, cat) THEN <<posts[i]>> ELSE <<>>)
         \o C14_MatchingFrom(i + 1, q, cat)

\* C14: for every search text and category filter, filteredPosts returns exactly
\* the listings of posts whose title or author name contains the search text,
\* case-insensitively, and whose category is the filter (or the filter is "all"),
\* in the order of posts.
C14_FilteredPostsExact ==
    \A q \in SearchInputs, cat \in FilterInputs :
        /\ filteredPosts(q, cat).threw = ""
        /\ filteredPosts(q, cat).value = C14_MatchingFrom(1, q, cat)

\* C15: once the notifications and the snapshot of the session's profile have
\* been delivered and no logout is in flight, a present currentUser carries the
\* uid of the session signed in at the store; no snapshot of the profile of an
\* identity that signed out makes that profile the currentUser.
C15_CurrentUserIsSession ==
    (/\ authQueue = <<>>
     /\ logoutPc = "idle"
     /\ authUser \notin profileDirty
     /\ currentUser # Null)
        => currentUser.id = authUser

\* C16: every listing of the store carries an author id, an author name, a
\* creation timestamp and a view counter, whatever calls of addPost, updatePost
\* and deletePost have been made.
C16_ListingsComplete ==
    \A id \in DOMAIN dbPosts :
        {"publisherId", "publisherName", "date", "views"} \subseteq DOMAIN dbPosts[id]

\* C18: a permitted updatePost(id, postData) sets the fields of postData on
\* posts/{id} and changes nothing else: the other fields of that listing, the
\* other listings, the categories and the identities are what they were.
C18_UpdatePostIsPartialMerge ==
    [][(lastOp'.op = "updatePost" /\ lastOp'.result = "ok") =>
         LET id == lastOp'.arg.id
             postData == lastOp'.arg.postData
         IN /\ DOMAIN dbPosts' = DOMAIN dbPosts \cup {id}
            /\ \A k \in DOMAIN dbPosts \ {id} : dbPosts'[k] = dbPosts[k]
            /\ \A f \in DOMAIN postData : dbPosts'[id][f] = postData[f]
            /\ IF id \in DOMAIN dbPosts
               THEN /\ DOMAIN dbPosts'[id] = DOMAIN dbPosts[id] \cup DOMAIN postData
                    /\ \A f \in DOMAIN dbPosts[id] \ DOMAIN postData :
                           dbPosts'[id][f] = dbPosts[id][f]
               ELSE DOMAIN dbPosts'[id] = DOMAIN postData
            /\ dbCategories' = dbCategories
            /\ dbUsers' = dbUsers]_vars

\* updatePost has edited the first of two listings: it has the new title and
\* category and still its author, timestamp and views; the second is as created.
C18_Witness ==
    /\ lastOp.op = "updatePost" /\ lastOp.result = "ok" /\ lastOp.arg.id = "p01"
    /\ DOMAIN dbPosts = {"p01", "p02"}
    /\ dbPosts["p01"].title = <<"E", "d", "i", "t", "e", "d">>
    /\ dbPosts["p01"].categoryId = "c02"
    /\ {"publisherId", "publisherName", "date", "views"} \subseteq DOMAIN dbPosts["p01"]
    /\ dbPosts["p01"].views = 0
    /\ dbPosts["p02"].title = <<"M", "y", " ", "L", "i", "n", "k">>

\* C19: the snapshot of users/{u} that the listener opened for u delivers sets
\* currentUser: to the profile the store holds, with id u; or, the store holding
\* none, to the fallback with id u, the email of the credential, the name 'User'
\* (the credential has no display name), role user and editable-flag true.
C19_ProfileSnapshotPublishes ==
    lastOp.op = "profileSnapshot" =>
        LET u == lastOp.arg
        IN /\ currentUser # Null
           /\ currentUser.id = u
           /\ IF u \in DOMAIN dbUsers
              THEN /\ DOMAIN currentUser = DOMAIN dbUsers[u] \cup {"id"}
                   /\ \A f \in DOMAIN dbUsers[u] : currentUser[f] = dbUsers[u][f]
              ELSE /\ DOMAIN currentUser = {"id", "email", "name", "role", "canEdit"}
                   /\ currentUser.email \in credentials
                   /\ (currentUser.email = "moinulbd.sk@gmail.com") <=> (u = "uidA")
                   /\ currentUser.name = <<"U", "s", "e", "r">>
                   /\ currentUser.role = "user"
                   /\ currentUser.canEdit = TRUE

\* The fallback has been published for a credential whose profile is not written
\* yet.
C19_Witness ==
    /\ lastOp.op = "profileSnapshot"
    /\ lastOp.arg \notin DOMAIN dbUsers
    /\ reg.pc = "set"
    /\ currentUser # Null
    /\ currentUser.role = "user"

\* C17: a call of editPost(post) while canEdit is true leaves editingPostId at
\* post.id and the listing form holding the title, description, URL, image URL
\* and category of post, whatever the role of the current identity.
C17_EditPostLoadsForm ==
    [][(lastOp'.op = "editPost" /\ canEdit) =>
         /\ editingPostId' = lastOp'.arg
         /\ \E i \in 1..Len(posts) :
               /\ posts[i].id = lastOp'.arg
               /\ postForm' = [title |-> posts[i].title,
                               description |-> posts[i].description,
                               url |-> posts[i].url,
                               imageUrl |-> posts[i].imageUrl,
                               categoryId |-> posts[i].categoryId]]_vars

\* The entries of a local collection are the records of its subtree, one per key,
\* each with its key as id.
C26_Mirrors(collection, subtree) ==
    /\ Len(collection) = Cardinality(DOMAIN subtree)
    /\ \A i \in 1..Len(collection) :
          /\ "id" \in DOMAIN collection[i]
          /\ collection[i].id \in DOMAIN subtree
          /\ DOMAIN collection[i] = DOMAIN subtree[collection[i].id] \cup {"id"}
          /\ \A f \in DOMAIN subtree[collection[i].id] :
                collection[i][f] = subtree[collection[i].id][f]
    /\ \A i, j \in 1..Len(collection) :
          collection[i].id = collection[j].id => i = j

\* C26: after a snapshot of categories, posts or users the local collection holds
\* exactly one entry per key of the subtree, with that key as id and the fields
\* of the record, and nothing else; it is empty when the subtree holds no data.
C26_SnapshotReplacesCollection ==
    /\ lastOp.op = "categoriesSnapshot" => C26_Mirrors(categories, dbCategories)
    /\ lastOp.op = "postsSnapshot" => C26_Mirrors(posts, dbPosts)
    /\ lastOp.op = "usersSnapshot" => C26_Mirrors(allUsers, dbUsers)

\* A snapshot of categories/ has been delivered after the first of two
\* categories was deleted: the local collection holds the second alone.
C26_Witness ==
    /\ lastOp.op = "categoriesSnapshot"
    /\ DOMAIN dbCategories = {"c02"}
    /\ Len(categories) = 1
    /\ categories[1].id = "c02"

\* C22: register writes the profile only in a step in which the credential
\* exists already; a failed creation of the credential raises its error and
\* leaves credentials and users/ unchanged; a failed profile write raises its
\* error and leaves the credential without a profile; success leaves the profile.
C22_RegisterCredentialThenProfile ==
    [][lastOp'.op = "register" =>
         /\ dbUsers' # dbUsers => (lastOp'.result = "ok" /\ lastOp'.arg.email \in credentials)
         /\ lastOp'.result = "created" =>
               (lastOp'.arg.email \notin credentials /\ lastOp'.arg.email \in credentials')
         /\ lastOp'.result = "auth/email-already-in-use" =>
               (credentials' = credentials /\ dbUsers' = dbUsers /\ reg' = reg)
         /\ lastOp'.result = "StoreError" =>
               /\ lastOp'.arg.email \in credentials'
               /\ dbUsers' = dbUsers
               /\ UidOf(lastOp'.arg.email) \notin DOMAIN dbUsers'
         /\ lastOp'.result = "ok" =>
               /\ lastOp'.arg.email \in credentials'
               /\ UidOf(lastOp'.arg.email) \in DOMAIN dbUsers'
               /\ dbUsers' # dbUsers
         /\ lastOp'.result \in {"created", "auth/email-already-in-use", "StoreError", "ok"}]_vars

\* The profile write of register has failed: the credential exists and users/
\* holds no profile for it.
C22_Witness ==
    /\ lastOp.op = "register" /\ lastOp.result = "StoreError"
    /\ lastOp.arg.email \in credentials
    /\ UidOf(lastOp.arg.email) \notin DOMAIN dbUsers

\* The categories of the store that carry `name`.
C23_Named(name) ==
    {k \in DOMAIN dbCategories :
        "name" \in DOMAIN dbCategories[k] /\ dbCategories[k].name = name}

\* C23: when a call of seedDefaults has completed, the store holds exactly one
\* category named 'Social Media' and exactly one named 'Messaging', however
\* many calls completed before.
C23_DefaultCategoriesOnce ==
    (lastOp.op = "seedDefaults" /\ lastOp.result = "ok") =>
        /\ Cardinality(C23_Named(S_SocialMedia)) = 1
        /\ Cardinality(C23_Named(S_Messaging)) = 1

\* The listings of the store that name one of the two categories of the call of
\* seedDefaults in flight.
C24_Seeded ==
    {k \in DOMAIN dbPosts : dbPosts[k].categoryId \in {seed.socialCatId, seed.msgCatId}}

\* C24: a call of seedDefaults adds one new category in each of its first two
\* steps and one new listing in each of its next four, changing nothing else of
\* the store; each listing names one of the two categories of the call, has
\* views 0 and the id and name of the current identity read by the call, or
\* 'system' and 'System Admin' when there is none; when the call completes the
\* store holds its two categories and exactly its four listings under them; the
\* call never fails, whatever the editable-flag is.
C24_SeedAddsTwoAndFour ==
    [][lastOp'.op = "seedDefaults" =>
         /\ lastOp'.result \in {"addCategory", "post", "ok"}
         /\ lastOp'.result = "addCategory" =>
               /\ lastOp'.arg \notin DOMAIN dbCategories
               /\ DOMAIN dbCategories' = DOMAIN dbCategories \cup {lastOp'.arg}
               /\ \A k \in DOMAIN dbCategories : dbCategories'[k] = dbCategories[k]
               /\ dbCategories'[lastOp'.arg].name =
                     (IF seed.pc = 0 THEN S_SocialMedia ELSE S_Messaging)
               /\ lastOp'.arg = (IF seed.pc = 0 THEN seed'.socialCatId ELSE seed'.msgCatId)
               /\ seed.pc \in {0, 1}
               /\ dbPosts' = dbPosts
         /\ (lastOp'.result = "post" /\ seed.pc = 2) =>
               IF currentUser # Null
               THEN seed'.adminId = currentUser.id /\ seed'.adminName = currentUser.name
               ELSE seed'.adminId = "system" /\ seed'.adminName = S_SystemAdmin
         /\ lastOp'.result = "post" =>
               /\ seed.pc \in 2..5
               /\ lastOp'.arg \notin DOMAIN dbPosts
               /\ DOMAIN dbPosts' = DOMAIN dbPosts \cup {lastOp'.arg}
               /\ \A k \in DOMAIN dbPosts : dbPosts'[k] = dbPosts[k]
               /\ dbPosts'[lastOp'.arg].views = 0
               /\ dbPosts'[lastOp'.arg].categoryId \in {seed'.socialCatId, seed'.msgCatId}
               /\ dbPosts'[lastOp'.arg].publisherId = seed'.adminId
               /\ dbPosts'[lastOp'.arg].publisherName = seed'.adminName
               /\ dbCategories' = dbCategories
         /\ lastOp'.result = "ok" =>
               /\ seed.pc = 6
               /\ dbPosts' = dbPosts /\ dbCategories' = dbCategories
               /\ seed.socialCatId # seed.msgCatId
               /\ {seed.socialCatId, seed.msgCatId} \subseteq DOMAIN dbCategories
               /\ Cardinality(C24_Seeded) = 4
               /\ \A k \in C24_Seeded :
                     /\ dbPosts[k].views = 0
                     /\ dbPosts[k].publisherId = seed.adminId
                     /\ dbPosts[k].publisherName = seed.adminName]_vars

\* A call of seedDefaults has completed for a publisher whose editable-flag is
\* false: four listings of the store carry its id.
C24_Witness ==
    /\ lastOp.op = "seedDefaults" /\ lastOp.result = "ok"
    /\ HasRole("publisher") /\ FlagFalse
    /\ Cardinality({k \in DOMAIN dbPosts : dbPosts[k].publisherId = currentUser.id}) = 4

\* C21: when the sign-in of handleLogin has failed, registration is attempted if
\* and only if the error is a credential error and the email passed to the
\* sign-in is the hardcoded admin address, and it is attempted for that email;
\* otherwise the failure is reported at once. A failed registration is reported
\* only from a registration in flight; a successful one schedules the
\* navigation whose timer sets the view to the admin dashboard.
C21_RegistersOnlyForAdminCredentialError ==
    [][/\ lastOp'.op = "handleLogin" =>
            /\ (hl.pc = "login" /\ lastOp'.result # "signed in") =>
                  /\ lastOp'.result \in {"register", "alert: login failed"}
                  /\ lastOp'.result = "register" <=>
                        (isCredentialError(lastOp'.arg.code) /\ hl.email = AdminEmail)
            /\ lastOp'.result = "register" => hl' = [pc |-> "create", email |-> hl.email]
            /\ lastOp'.result = "alert: login failed" => (hl.pc = "login" /\ hl' = IdleLogin)
            /\ lastOp'.result = "alert: register failed" => hl.pc \in {"create", "set"}
            /\ lastOp'.result = "registered" => navTimers' = Append(navTimers, "admin")
       /\ (lastOp'.op = "navTimer" /\ lastOp'.result = "admin") =>
            currentView' = "admin-dashboard"]_vars

\* The profile the store holds for the identity signed in, or Null.
C25_Profile == IF authUser \in DOMAIN dbUsers THEN dbUsers[authUser] ELSE Null

\* C25: when the navigation timer of a successful sign-in fires, the view becomes
\* the one of the role in the stored profile of the identity signed in: the
\* admin dashboard for an admin, the publisher dashboard for a publisher, home
\* otherwise, whether or not the profile snapshot has arrived.
C25_NavigationMatchesStoredRole ==
    [][(lastOp'.op = "navTimer" /\ lastOp'.result = "byRole") =>
         currentView' = viewOfRole(C25_Profile)]_vars

====
